---- MODULE Spec2Model ----
(***************************************************************************)
(* Model of streamlit_airbnb_dashboard.py: a Streamlit script that is      *)
(* re-executed top to bottom on every widget change.  One run is           *)
(*   load_data (memoized by st.cache_data) -> group filter -> room-type    *)
(*   filter -> empty check -> nine st.plotly_chart panels.                 *)
(*                                                                         *)
(* Text is modelled as a sequence of tokens: the characters the code       *)
(* treats specially (" ", "_", "$", ",", "-") are tokens of their own,     *)
(* every other maximal run of characters is one token.  Numeric cells are  *)
(* written with one token per digit.  Floats are modelled by the           *)
(* non-negative integers.                                                  *)
(***************************************************************************)
EXTENDS Integers, Sequences, FiniteSets, TLC

VARIABLES
    disk,                \* the CSV file on disk (environment)
    cache,               \* st.cache_data memo of load_data for the one path used
    reads,               \* number of pd.read_csv parses performed so far
    pc,                  \* position of the current script run
    data,                \* script variable `data`
    selected_groups,     \* script variable `selected_groups`
    unique_room_types,   \* script variable `unique_room_types`
    selected_room_types, \* script variable `selected_room_types`
    filtered_data,       \* script variable `filtered_data`
    messages,            \* st.success / st.error / st.warning emitted in this run
    charts,              \* st.plotly_chart panels rendered in this run
    failure              \* exception that ended the run ("" when none)

vars == <<disk, cache, reads, pc, data, selected_groups, unique_room_types,
          selected_room_types, filtered_data, messages, charts, failure>>

\* Bounds of the model.
MaxRows == 3
MaxReads == 2

\* An absent optional value (no table yet, no selection read yet).
None == <<>>
Some(x) == <<x>>

Range(s) == {s[i] : i \in 1..Len(s)}

(***************************************************************************)
(* Column names                                                            *)
(***************************************************************************)
numeric_cols ==
    << <<"price">>,
       <<"service", "_", "fee">>,
       <<"minimum", "_", "nights">>,
       <<"number", "_", "of", "_", "reviews">>,
       <<"reviews", "_", "per", "_", "month">>,
       <<"availability", "_", "365">> >>

col_last_review == <<"last", "_", "review">>
col_neighbourhood_group == <<"neighbourhood", "_", "group">>
col_room_type == <<"room", "_", "type">>
col_instant_bookable == <<"instant", "_", "bookable">>
col_reviews_per_month == <<"reviews", "_", "per", "_", "month">>
col_minimum_nights == <<"minimum", "_", "nights">>
col_price == <<"price">>
col_availability_365 == <<"availability", "_", "365">>
col_NAME == <<"NAME">>

\* str.strip(): drop leading and trailing whitespace.
RECURSIVE LStrip(_)
LStrip(s) == IF s # <<>> /\ Head(s) = " " THEN LStrip(Tail(s)) ELSE s

RECURSIVE RStrip(_)
RStrip(s) ==
    IF s # <<>> /\ s[Len(s)] = " " THEN RStrip(SubSeq(s, 1, Len(s) - 1)) ELSE s

Strip(s) == RStrip(LStrip(s))

\* str.replace(old, new) for a one-character old.
Replace(s, old, new) ==
    [i \in 1..Len(s) |-> IF s[i] = old THEN new ELSE s[i]]

\* Removal of a character: str.replace(old, '').
RECURSIVE Remove(_, _)
Remove(s, old) ==
    IF s = <<>> THEN <<>>
    ELSE IF Head(s) = old THEN Remove(Tail(s), old)
    ELSE <<Head(s)>> \o Remove(Tail(s), old)

\* A variant of the normalisation that forgets str.strip().
NormalizeNameNoStrip(name) == Replace(name, " ", "_")

\* df.columns.str.strip().str.replace(' ', '_') on one column name.
NormalizeName(name) == Replace(Strip(name), " ", "_")

NormalizeColumns(header) == [i \in 1..Len(header) |-> NormalizeName(header[i])]

(***************************************************************************)
(* Cell values of a loaded table                                           *)
(***************************************************************************)
Str(s) == [t |-> "str", s |-> s, v |-> 0]
Num(n) == [t |-> "num", s |-> <<>>, v |-> n]
NaN == [t |-> "nan", s |-> <<>>, v |-> 0]

Digits == {"0", "1", "2", "3", "4", "5", "6", "7", "8", "9"}

DigitValue(d) ==
    CASE d = "0" -> 0 [] d = "1" -> 1 [] d = "2" -> 2 [] d = "3" -> 3
      [] d = "4" -> 4 [] d = "5" -> 5 [] d = "6" -> 6 [] d = "7" -> 7
      [] d = "8" -> 8 [] d = "9" -> 9

\* Whether float(s) succeeds: a non-empty run of digits.
IsNumber(s) == s # <<>> /\ \A i \in 1..Len(s) : s[i] \in Digits

RECURSIVE ParseFloat(_)
ParseFloat(s) ==
    IF Len(s) = 1 THEN DigitValue(s[1])
    ELSE 10 * ParseFloat(SubSeq(s, 1, Len(s) - 1)) + DigitValue(s[Len(s)])

IsDate(s) ==
    /\ Len(s) = 10
    /\ s[5] = "-" /\ s[8] = "-"
    /\ \A i \in {1, 2, 3, 4, 6, 7, 9, 10} : s[i] \in Digits

Date(s) == [t |-> "date", s |-> s, v |-> 0]

(***************************************************************************)
(* Data frames: columns is the sequence of column names, rows the sequence *)
(* of rows; a row keeps its index label idx and one cell per column.       *)
(***************************************************************************)
HasCol(df, name) == \E j \in 1..Len(df.columns) : df.columns[j] = name

\* Position of the column df[name] looks up.
ColIndex(df, name) == CHOOSE j \in 1..Len(df.columns) : df.columns[j] = name

Cell(df, row, name) == row.cells[ColIndex(df, name)]

\* dtype of column j: 'object' when it holds text, a numeric dtype otherwise.
IsObject(df, j) == \E i \in 1..Len(df.rows) : df.rows[i].cells[j].t = "str"

\* pd.read_csv's type inference: a column whose every non-empty field is a
\* plain number is numeric, any other column keeps its fields as text; an
\* empty field is missing either way.
NumericField(f) == f = <<>> \/ IsNumber(f)

ReadCell(rawrows, i, j) ==
    LET f == rawrows[i][j] IN
    IF f = <<>> THEN NaN
    ELSE IF \A k \in 1..Len(rawrows) : NumericField(rawrows[k][j])
         THEN Num(ParseFloat(f))
         ELSE Str(f)

read_csv(file) ==
    [columns |-> file.header,
     rows |-> [i \in 1..Len(file.rows) |->
                 [idx |-> i,
                  cells |-> [j \in 1..Len(file.header) |->
                               ReadCell(file.rows, i, j)]]]]

\* .str.replace('$', '').str.replace(',', '') on one cell of an object column
\* (a missing cell stays missing).
StripCurrency(c) ==
    IF c.t = "str" THEN Str(Remove(Remove(c.s, "$"), ",")) ELSE c

\* Whether .astype(float) accepts the cell.
FloatOk(c) == c.t # "str" \/ IsNumber(c.s)

AsFloat(c) == IF c.t = "str" THEN Num(ParseFloat(c.s)) ELSE c

\* The value line 36 or line 38 gives cell c of numeric column j, the column
\* being convertible.
ConvertNumeric(df, j, c) ==
    IF IsObject(df, j) THEN AsFloat(StripCurrency(c)) ELSE c

\* Whether line 36 raises ValueError on column j.
ColumnRaises(df, j) ==
    /\ IsObject(df, j)
    /\ \E i \in 1..Len(df.rows) : ~FloatOk(StripCurrency(df.rows[i].cells[j]))

\* pd.to_datetime(..., errors='coerce') on one cell.
ToDatetime(c) == IF c.t = "str" /\ IsDate(c.s) THEN Date(c.s) ELSE NaN

\* The exception the loop of lines 34-38 and line 41 end in, "" when none:
\* the first designated column, in order, that is absent (KeyError) or holds
\* text that is no number (ValueError), then last_review.
RECURSIVE LoopError(_, _)
LoopError(df, k) ==
    IF k > Len(numeric_cols)
    THEN IF HasCol(df, col_last_review) THEN "" ELSE "KeyError"
    ELSE IF ~HasCol(df, numeric_cols[k]) THEN "KeyError"
    ELSE IF ColumnRaises(df, ColIndex(df, numeric_cols[k])) THEN "ValueError"
    ELSE LoopError(df, k + 1)

IsNumericCol(name) == \E k \in 1..Len(numeric_cols) : numeric_cols[k] = name

\* The body of load_data on a file that exists: the exception it raises, or
\* the cleaned table.
load_data_body(file) ==
    LET df0 == read_csv(file)
        df == [df0 EXCEPT !.columns = NormalizeColumns(df0.columns)]
        err == LoopError(df, 1)
    IN  IF err # "" THEN [err |-> err, table |-> None]
        ELSE [err |-> "",
              table |-> Some(
                [columns |-> df.columns,
                 rows |-> [i \in 1..Len(df.rows) |->
                    [idx |-> df.rows[i].idx,
                     cells |-> [j \in 1..Len(df.columns) |->
                        IF IsNumericCol(df.columns[j])
                        THEN ConvertNumeric(df, j, df.rows[i].cells[j])
                        ELSE IF df.columns[j] = col_last_review
                        THEN ToDatetime(df.rows[i].cells[j])
                        ELSE df.rows[i].cells[j]]]]])]

(***************************************************************************)
(* The input files considered                                              *)
(***************************************************************************)
\* Header as the public data set writes it (spaces inside names), with the
\* title column padded.
HeaderSpaced ==
    << <<" ", "NAME", " ">>,
       <<"neighbourhood", " ", "group">>,
       <<"room", " ", "type">>,
       <<"price">>,
       <<"service", " ", "fee">>,
       <<"minimum", " ", "nights">>,
       <<"number", " ", "of", " ", "reviews">>,
       <<"reviews", " ", "per", " ", "month">>,
       <<"last", " ", "review">>,
       <<"availability", " ", "365">>,
       <<"instant", "_", "bookable">> >>

\* Header with the title column in lower case.
HeaderLower ==
    << <<"name">>,
       <<"neighbourhood", "_", "group">>,
       <<"room", "_", "type">>,
       <<"price">>,
       <<"service", "_", "fee">>,
       <<"minimum", "_", "nights">>,
       <<"number", "_", "of", "_", "reviews">>,
       <<"reviews", "_", "per", "_", "month">>,
       <<"last", "_", "review">>,
       <<"availability", "_", "365">>,
       <<"instant", "_", "bookable">> >>

\* Header whose fee column has another name.
HeaderNoFee == [HeaderSpaced EXCEPT ![5] = <<"fee">>]

Headers == {HeaderSpaced, HeaderLower, HeaderNoFee}

Manhattan == <<"Manhattan">>
Brooklyn == <<"Brooklyn">>
EntireHome == <<"Entire", " ", "home/apt">>
PrivateRoom == <<"Private", " ", "room">>

\* Raw rows a file may hold, one field per header column.
RowCatalogue ==
    { \* currency-formatted price and fee
      << <<"Loft">>, Manhattan, EntireHome,
         <<"$", "1", ",", "2", "0", "0">>, <<"$", "2", "4", "0">>,
         <<"3">>, <<"9">>, <<"2">>,
         <<"2", "0", "2", "1", "-", "1", "0", "-", "1", "9">>,
         <<"3", "6", "5">>, <<"TRUE">> >>,
      \* plain numbers, no reviews yet
      << <<"Studio">>, Brooklyn, PrivateRoom,
         <<"8", "0">>, <<"1", "6">>,
         <<"1">>, <<"0">>, <<>>,
         <<>>,
         <<"9", "0">>, <<"FALSE">> >>,
      \* a price that is no number, a date that is no date
      << <<"Flat">>, Manhattan, PrivateRoom,
         <<"n/a">>, <<"$", "1", "0">>,
         <<"2">>, <<"4">>, <<"1">>,
         <<"unknown">>,
         <<"1", "0">>, <<"TRUE">> >>,
      \* plain numbers
      << <<"Room">>, Brooklyn, EntireHome,
         <<"9", "5">>, <<"1", "9">>,
         <<"3", "0">>, <<"7">>, <<"3">>,
         <<"2", "0", "2", "2", "-", "0", "1", "-", "0", "5">>,
         <<"0">>, <<"FALSE">> >> }

SeqsUpTo(S, n) == UNION {[1..k -> S] : k \in 0..n}

Absent == [exists |-> FALSE, header |-> <<>>, rows |-> <<>>]

Files ==
    {[exists |-> TRUE, header |-> h, rows |-> rs] :
        h \in Headers, rs \in SeqsUpTo(RowCatalogue, MaxRows)}

(***************************************************************************)
(* The filter stage's helpers                                              *)
(***************************************************************************)
\* Series.unique(): the distinct values, in order of first appearance.
RECURSIVE UniqueOf(_, _)
UniqueOf(vals, seen) ==
    IF vals = <<>> THEN <<>>
    ELSE IF Head(vals) \in seen THEN UniqueOf(Tail(vals), seen)
    ELSE <<Head(vals)>> \o UniqueOf(Tail(vals), seen \cup {Head(vals)})

Unique(df, name) ==
    UniqueOf([i \in 1..Len(df.rows) |-> Cell(df, df.rows[i], name)], {})

\* A boolean mask that keeps the rows outside the selection.
IsinNegated(df, name, selected) ==
    [df EXCEPT !.rows =
        SelectSeq(df.rows, LAMBDA r : Cell(df, r, name) \notin selected)]

\* df[df[name].isin(selected)]: a new frame of the rows whose value is selected.
Isin(df, name, selected) ==
    [df EXCEPT !.rows =
        SelectSeq(df.rows, LAMBDA r : Cell(df, r, name) \in selected)]

\* DataFrame.dropna(subset=[name])
DropNa(df, name) ==
    [df EXCEPT !.rows =
        SelectSeq(df.rows, LAMBDA r : Cell(df, r, name).t # "nan")]

Idx(df) == [i \in 1..Len(df.rows) |-> df.rows[i].idx]

(***************************************************************************)
(* The chart stage: one entry per st.plotly_chart call, in script order,   *)
(* with the section (st.header) it is under, the columns its builder looks *)
(* up, and whether it first drops the rows without reviews_per_month.      *)
(***************************************************************************)
Builder(fig, section, cols, dropna) ==
    [fig |-> fig, section |-> section, cols |-> cols, dropna |-> dropna]

\* The chart stage with its last panel left out.
ChartBuildersFirstEight ==
    << Builder("fig_bar", 1, {col_neighbourhood_group, col_room_type}, FALSE),
       Builder("fig_pie_room_type", 1, {col_room_type}, FALSE),
       Builder("fig_pie_group", 1, {col_neighbourhood_group}, FALSE),
       Builder("fig_pie_instant", 1, {col_instant_bookable}, FALSE),
       Builder("fig_avg_reviews", 2,
               {col_neighbourhood_group, col_reviews_per_month}, FALSE),
       Builder("fig_bubble", 2,
               {col_reviews_per_month, col_minimum_nights, col_price,
                col_room_type, col_NAME}, TRUE),
       Builder("fig_scatter", 2,
               {col_availability_365, col_price, col_room_type, col_NAME}, FALSE),
       Builder("fig_box", 3, {col_neighbourhood_group, col_minimum_nights}, FALSE) >>

ChartBuilders ==
    << Builder("fig_bar", 1, {col_neighbourhood_group, col_room_type}, FALSE),
       Builder("fig_pie_room_type", 1, {col_room_type}, FALSE),
       Builder("fig_pie_group", 1, {col_neighbourhood_group}, FALSE),
       Builder("fig_pie_instant", 1, {col_instant_bookable}, FALSE),
       Builder("fig_avg_reviews", 2,
               {col_neighbourhood_group, col_reviews_per_month}, FALSE),
       Builder("fig_bubble", 2,
               {col_reviews_per_month, col_minimum_nights, col_price,
                col_room_type, col_NAME}, TRUE),
       Builder("fig_scatter", 2,
               {col_availability_365, col_price, col_room_type, col_NAME}, FALSE),
       Builder("fig_box", 3, {col_neighbourhood_group, col_minimum_nights}, FALSE),
       Builder("fig_heatmap", 3, Range(numeric_cols), FALSE) >>

\* The frame builder b consumes.
BuilderInput(b, df) ==
    IF b.dropna THEN DropNa(df, col_reviews_per_month) ELSE df

(***************************************************************************)
(* State machine                                                           *)
(***************************************************************************)
Terminal == {"stopped", "crashed", "done"}

\* The script variables at the start of a run.
FreshRun ==
    /\ pc = "load"
    /\ data = None
    /\ selected_groups = None
    /\ unique_room_types = None
    /\ selected_room_types = None
    /\ filtered_data = None
    /\ messages = {}
    /\ charts = <<>>
    /\ failure = ""

Init ==
    /\ disk \in Files \cup {Absent}
    /\ cache = None
    /\ reads = 0
    /\ FreshRun

\* The environment appends a row to the file, between two runs.
AppendRow ==
    /\ pc \in Terminal
    /\ disk.exists
    /\ Len(disk.rows) < MaxRows
    /\ \E r \in RowCatalogue : disk' = [disk EXCEPT !.rows = Append(@, r)]
    /\ UNCHANGED <<cache, reads, pc, data, selected_groups, unique_room_types,
                   selected_room_types, filtered_data, messages, charts, failure>>

\* The environment removes the file, between two runs.
DeleteFile ==
    /\ pc \in Terminal
    /\ disk.exists
    /\ disk' = Absent
    /\ UNCHANGED <<cache, reads, pc, data, selected_groups, unique_room_types,
                   selected_room_types, filtered_data, messages, charts, failure>>

\* The Presentation Shell re-executes the script from the top.
Rerun ==
    /\ pc \in Terminal
    /\ pc' = "load"
    /\ data' = None
    /\ selected_groups' = None
    /\ unique_room_types' = None
    /\ selected_room_types' = None
    /\ filtered_data' = None
    /\ messages' = {}
    /\ charts' = <<>>
    /\ failure' = ""
    /\ UNCHANGED <<disk, cache, reads>>

\* load_data without the memo: every call reads and parses the file.
LoadDataNoMemo ==
    /\ pc = "load"
    /\ IF disk.exists THEN reads < MaxReads ELSE TRUE
    /\ IF ~disk.exists
       THEN /\ messages' = messages \cup {"error"}
            /\ pc' = "stopped"
            /\ UNCHANGED <<cache, reads, data, failure>>
       ELSE LET r == load_data_body(disk) IN
            /\ reads' = reads + 1
            /\ IF r.err # ""
               THEN /\ failure' = r.err
                    /\ pc' = "crashed"
                    /\ UNCHANGED <<cache, data, messages>>
               ELSE /\ cache' = r.table
                    /\ data' = r.table
                    /\ messages' = messages \cup {"success"}
                    /\ pc' = "groups"
                    /\ UNCHANGED failure
    /\ UNCHANGED <<disk, selected_groups, unique_room_types,
                   selected_room_types, filtered_data, charts>>

\* The call site without its except clause: FileNotFoundError ends the run
\* like any other exception, with no message.
LoadDataNoHandler ==
    /\ pc = "load"
    /\ IF cache = None /\ disk.exists THEN reads < MaxReads ELSE TRUE
    /\ IF cache # None
       THEN /\ data' = cache
            /\ messages' = messages \cup {"success"}
            /\ pc' = "groups"
            /\ UNCHANGED <<cache, reads, failure>>
       ELSE IF ~disk.exists
       THEN /\ failure' = "FileNotFoundError"
            /\ pc' = "crashed"
            /\ UNCHANGED <<cache, reads, data, messages>>
       ELSE LET r == load_data_body(disk) IN
            /\ reads' = reads + 1
            /\ IF r.err # ""
               THEN /\ failure' = r.err
                    /\ pc' = "crashed"
                    /\ UNCHANGED <<cache, data, messages>>
               ELSE /\ cache' = r.table
                    /\ data' = r.table
                    /\ messages' = messages \cup {"success"}
                    /\ pc' = "groups"
                    /\ UNCHANGED failure
    /\ UNCHANGED <<disk, selected_groups, unique_room_types,
                   selected_room_types, filtered_data, charts>>

\* Lines 45-50: data = load_data(path) under st.cache_data, with the
\* FileNotFoundError handler.  A memoized result is returned without reading
\* the file; any other exception of load_data ends the run uncaught.
LoadData ==
    /\ pc = "load"
    /\ IF cache = None /\ disk.exists THEN reads < MaxReads ELSE TRUE
    /\ IF cache # None
       THEN /\ data' = cache
            /\ messages' = messages \cup {"success"}
            /\ pc' = "groups"
            /\ UNCHANGED <<cache, reads, failure>>
       ELSE IF ~disk.exists
       THEN /\ messages' = messages \cup {"error"}
            /\ pc' = "stopped"
            /\ UNCHANGED <<cache, reads, data, failure>>
       ELSE LET r == load_data_body(disk) IN
            /\ reads' = reads + 1
            /\ IF r.err # ""
               THEN /\ failure' = r.err
                    /\ pc' = "crashed"
                    /\ UNCHANGED <<cache, data, messages>>
               ELSE /\ cache' = r.table
                    /\ data' = r.table
                    /\ messages' = messages \cup {"success"}
                    /\ pc' = "groups"
                    /\ UNCHANGED failure
    /\ UNCHANGED <<disk, selected_groups, unique_room_types,
                   selected_room_types, filtered_data, charts>>

\* A group filter that narrows the loaded frame itself.
SelectGroupsInPlace ==
    /\ pc = "groups"
    /\ \E sel \in SUBSET Range(Unique(data[1], col_neighbourhood_group)) :
          /\ selected_groups' = Some(sel)
          /\ filtered_data' = Some(Isin(data[1], col_neighbourhood_group, sel))
          /\ data' = filtered_data'
          /\ cache' = filtered_data'
    /\ pc' = "rooms"
    /\ UNCHANGED <<disk, reads, unique_room_types, selected_room_types,
                   messages, charts, failure>>

\* Lines 56-62: the group multiselect (its value is a subset of its options)
\* and the group filter.
SelectGroups ==
    /\ pc = "groups"
    /\ \E sel \in SUBSET Range(Unique(data[1], col_neighbourhood_group)) :
          /\ selected_groups' = Some(sel)
          /\ filtered_data' = Some(Isin(data[1], col_neighbourhood_group, sel))
    /\ pc' = "rooms"
    /\ UNCHANGED <<disk, cache, reads, data, unique_room_types,
                   selected_room_types, messages, charts, failure>>

\* A room-type stage that takes its options from the unfiltered table.
SelectRoomTypesUnfiltered ==
    /\ pc = "rooms"
    /\ unique_room_types' = Some(Unique(data[1], col_room_type))
    /\ \E sel \in SUBSET Range(unique_room_types'[1]) :
          /\ selected_room_types' = Some(sel)
          /\ filtered_data' = Some(Isin(filtered_data[1], col_room_type, sel))
    /\ pc' = "check"
    /\ UNCHANGED <<disk, cache, reads, data, selected_groups, messages,
                   charts, failure>>

\* A room-type stage that filters the loaded table, losing the group filter.
SelectRoomTypesFromData ==
    /\ pc = "rooms"
    /\ unique_room_types' = Some(Unique(filtered_data[1], col_room_type))
    /\ \E sel \in SUBSET Range(unique_room_types'[1]) :
          /\ selected_room_types' = Some(sel)
          /\ filtered_data' = Some(Isin(data[1], col_room_type, sel))
    /\ pc' = "check"
    /\ UNCHANGED <<disk, cache, reads, data, selected_groups, messages,
                   charts, failure>>

\* Lines 65-71: the room-type options, the room-type multiselect and the
\* room-type filter.
SelectRoomTypes ==
    /\ pc = "rooms"
    /\ unique_room_types' = Some(Unique(filtered_data[1], col_room_type))
    /\ \E sel \in SUBSET Range(unique_room_types'[1]) :
          /\ selected_room_types' = Some(sel)
          /\ filtered_data' = Some(Isin(filtered_data[1], col_room_type, sel))
    /\ pc' = "check"
    /\ UNCHANGED <<disk, cache, reads, data, selected_groups, messages,
                   charts, failure>>

\* An empty check that warns and carries on.
CheckEmptyNoStop ==
    /\ pc = "check"
    /\ IF filtered_data[1].rows = <<>>
       THEN messages' = messages \cup {"warning"}
       ELSE UNCHANGED messages
    /\ pc' = "charts"
    /\ UNCHANGED <<disk, cache, reads, data, selected_groups, unique_room_types,
                   selected_room_types, filtered_data, charts, failure>>

\* Lines 77-79: filtered_data.empty -> st.warning, st.stop.
CheckEmpty ==
    /\ pc = "check"
    /\ IF filtered_data[1].rows = <<>>
       THEN /\ messages' = messages \cup {"warning"}
            /\ pc' = "stopped"
       ELSE /\ pc' = "charts"
            /\ UNCHANGED messages
    /\ UNCHANGED <<disk, cache, reads, data, selected_groups, unique_room_types,
                   selected_room_types, filtered_data, charts, failure>>

\* Lines 81-215: the next chart builder and its st.plotly_chart.  A builder
\* that looks up a column the frame lacks raises, which ends the run.
RenderChart ==
    /\ pc = "charts"
    /\ LET b == ChartBuilders[Len(charts) + 1]
           df == filtered_data[1]
       IN  IF b.cols \subseteq Range(df.columns)
           THEN /\ charts' = Append(charts,
                        [fig |-> b.fig, section |-> b.section,
                         rows |-> Idx(BuilderInput(b, df))])
                /\ pc' = IF Len(charts') = Len(ChartBuilders)
                         THEN "done" ELSE "charts"
                /\ UNCHANGED failure
           ELSE /\ failure' = "MissingColumn"
                /\ pc' = "crashed"
                /\ UNCHANGED charts
    /\ UNCHANGED <<disk, cache, reads, data, selected_groups, unique_room_types,
                   selected_room_types, filtered_data, messages>>

Next ==
    \/ AppendRow
    \/ DeleteFile
    \/ Rerun
    \/ LoadData
    \/ SelectGroups
    \/ SelectRoomTypes
    \/ CheckEmpty
    \/ RenderChart

Spec == Init /\ [][Next]_vars

(***************************************************************************)
(* Properties                                                              *)
(***************************************************************************)
GroupOf(df, r) == Cell(df, r, col_neighbourhood_group)
RoomOf(df, r) == Cell(df, r, col_room_type)

\* The load step of a run: the only step that leaves pc = "load".
LoadStep == pc = "load" /\ pc' # "load"

\* C1 as stated: in every run in which the CSV file is absent, the load step
\* emits the error message and halts the run.
C1_AbsentFileAlwaysHalts ==
    [][(LoadStep /\ ~disk.exists)
         => (pc' = "stopped" /\ "error" \in messages')]_vars

\* C1 as amended: in every run in which the CSV file is absent and no earlier
\* load has been memoized, the load step emits the error message and halts
\* the run; and a run that emitted the error reads no filter selection,
\* computes no filtered table and invokes no chart builder.
C1_AbsentFileHaltsUnlessMemoized ==
    /\ [][(LoadStep /\ ~disk.exists /\ cache = None)
            => (pc' = "stopped" /\ messages' = {"error"})]_vars
    /\ []("error" \in messages
            => /\ pc = "stopped"
               /\ data = None
               /\ selected_groups = None
               /\ selected_room_types = None
               /\ filtered_data = None
               /\ charts = <<>>)

C1_Witness ==
    pc = "stopped" /\ "error" \in messages /\ ~disk.exists /\ cache = None

\* C2: an empty group selection or an empty room-type selection gives a
\* filtered table of zero rows, the warning and a halt with no chart; no
\* chart builder is ever invoked on an empty filtered table.
C2_EmptySelectionHalts ==
    /\ (selected_groups = Some({}) \/ selected_room_types = Some({}))
         => /\ filtered_data[1].rows = <<>>
            /\ charts = <<>>
            /\ pc \in {"rooms", "check", "stopped"}
            /\ pc = "stopped" => "warning" \in messages
    /\ (charts # <<>> \/ pc \in {"charts", "done"})
         => filtered_data # None /\ filtered_data[1].rows # <<>>
    /\ "warning" \in messages
         => pc = "stopped" /\ filtered_data[1].rows = <<>> /\ charts = <<>>

C2_Witness ==
    /\ pc = "stopped"
    /\ "warning" \in messages
    /\ data[1].rows # <<>>
    /\ selected_groups # Some({})
    /\ selected_room_types = Some({})

C4_RoomOptionsFromGroupFiltered ==
    unique_room_types # None =>
        /\ Range(unique_room_types[1]) =
              {RoomOf(data[1], data[1].rows[i]) :
                 i \in {j \in 1..Len(data[1].rows) :
                          GroupOf(data[1], data[1].rows[j]) \in selected_groups[1]}}
        /\ selected_room_types[1] \subseteq Range(unique_room_types[1])
        /\ Len(unique_room_types[1]) = Cardinality(Range(unique_room_types[1]))

C4_Witness ==
    /\ unique_room_types # None
    /\ unique_room_types[1] # <<>>
    /\ Range(unique_room_types[1]) # Range(Unique(data[1], col_room_type))

\* C5: after both filters the filtered table holds exactly the rows of the
\* loaded table whose group and room type are selected, in the loaded order.
C5_FilteredExactlySelected ==
    selected_room_types # None =>
        LET d == data[1]
            f == filtered_data[1]
            keep(r) == /\ GroupOf(d, r) \in selected_groups[1]
                       /\ RoomOf(d, r) \in selected_room_types[1]
        IN  /\ f.columns = d.columns
            /\ \A i \in 1..Len(f.rows) :
                  \E j \in 1..Len(d.rows) :
                     d.rows[j] = f.rows[i] /\ keep(d.rows[j])
            /\ \A j \in 1..Len(d.rows) :
                  keep(d.rows[j]) => \E i \in 1..Len(f.rows) : f.rows[i] = d.rows[j]
            /\ \A i, k \in 1..Len(f.rows) :
                  i < k => f.rows[i].idx < f.rows[k].idx

C5_Witness ==
    /\ pc = "check"
    /\ Len(filtered_data[1].rows) = 2
    /\ Len(data[1].rows) = 3
    /\ filtered_data[1].rows[1].idx = 1
    /\ filtered_data[1].rows[2].idx = 3

\* C6: no step of the filter stage or of the chart stage modifies the
\* memoized table or the loaded table, and the filtered table of a run is
\* the memoized table filtered by that run's selections.
C6_CacheNeverModified ==
    /\ [][pc # "load" => (cache' = cache /\ (pc' # "load" => data' = data))]_vars
    /\ [](selected_room_types # None
            => filtered_data[1] =
                  Isin(Isin(cache[1], col_neighbourhood_group, selected_groups[1]),
                       col_room_type, selected_room_types[1]))

C6_Witness ==
    /\ pc = "done"
    /\ ~disk.exists
    /\ Len(filtered_data[1].rows) < Len(cache[1].rows)

\* C7: once a load has succeeded the memoized table never changes, the file
\* is never read again, and every later load step returns the memoized table.
C7_LoadMemoized ==
    /\ [][cache # None => (cache' = cache /\ reads' = reads)]_vars
    /\ [][(LoadStep /\ cache # None) => (data' = cache /\ pc' = "groups")]_vars

C7_Witness ==
    /\ pc = "groups"
    /\ reads = 1
    /\ data = cache
    /\ disk.exists
    /\ Len(disk.rows) # Len(cache[1].rows)

\* C8 as stated: a run that completes has rendered eleven chart panels.
C8_ElevenPanels == pc = "done" => Len(charts) = 11

\* The row labels builder number i consumes, from the filtered table.
ConsumedRows(i) ==
    LET f == filtered_data[1] IN
    IF i = 6
    THEN Idx([f EXCEPT !.rows =
                SelectSeq(f.rows,
                          LAMBDA r : Cell(f, r, col_reviews_per_month) # NaN)])
    ELSE Idx(f)

\* C8 as amended: a run in which the file loads, the filtered table is not
\* empty and the table has every column the builders look up renders nine
\* chart panels, by nine different builders, each consuming the filtered
\* table of that run (the bubble scatter without the rows that lack
\* reviews_per_month), across the three sections.
C8_NinePanels ==
    /\ pc = "done" =>
          /\ Len(charts) = 9
          /\ Cardinality({charts[i].fig : i \in 1..Len(charts)}) = 9
          /\ {charts[i].section : i \in 1..Len(charts)} = {1, 2, 3}
    /\ pc = "charts" => Len(charts) < 9
    /\ \A i \in 1..Len(charts) : charts[i].rows = ConsumedRows(i)
    /\ (pc \in {"stopped", "crashed"} /\ charts # <<>>) =>
          /\ failure = "MissingColumn"
          /\ \E k \in 1..Len(ChartBuilders) :
                ~(ChartBuilders[k].cols \subseteq Range(data[1].columns))

C8_Witness ==
    /\ pc = "done"
    /\ Len(charts) = 9
    /\ Len(charts[6].rows) < Len(charts[7].rows)

AllGroups == {Str(Manhattan), Str(Brooklyn)}
AllRoomTypes == {Str(EntireHome), Str(PrivateRoom)}

FilterCount(df, groups, rooms) ==
    Len(Isin(Isin(df, col_neighbourhood_group, groups), col_room_type, rooms).rows)

\* C9: for every loaded table and room-type selection R, and group
\* selections A within B, filtering by A keeps at most as many rows as
\* filtering by B.
C9_GroupFilterMonotone ==
    pc = "groups" =>
        \A B \in SUBSET AllGroups : \A A \in SUBSET B : \A R \in SUBSET AllRoomTypes :
            FilterCount(data[1], A, R) <= FilterCount(data[1], B, R)

C9_Witness ==
    /\ pc = "groups"
    /\ FilterCount(data[1], {Str(Manhattan)}, AllRoomTypes) > 0
    /\ FilterCount(data[1], {Str(Manhattan)}, AllRoomTypes)
          < FilterCount(data[1], AllGroups, AllRoomTypes)

\* Header name h is column name n, up to surrounding spaces and to spaces
\* written for underscores.
Matches(h, n) ==
    \E a \in 0..Len(h) :
        /\ Len(h) >= a + Len(n)
        /\ \A k \in 1..Len(h) :
              IF k <= a \/ k > a + Len(n)
              THEN h[k] = " "
              ELSE h[k] = n[k - a] \/ (h[k] = " " /\ n[k - a] = "_")
        /\ h[a + 1] # " " /\ h[a + Len(n)] # " "

HeaderHasAll(header, names) ==
    \A n \in names : \E j \in 1..Len(header) : Matches(header[j], n)

\* The columns section 6 of the specification requires, but for the title.
RequiredButTitle ==
    Range(numeric_cols) \cup
       {col_neighbourhood_group, col_room_type, col_last_review, col_instant_bookable}

BuildersFindColumns(df) ==
    \A k \in 1..Len(ChartBuilders) : ChartBuilders[k].cols \subseteq Range(df.columns)

\* C10 as stated: on a table loaded from a file whose header has the required
\* columns, the title column being `name`, no chart builder ends in a
\* missing-column failure.
C10_LowerCaseName ==
    (data # None
       /\ HeaderHasAll(data[1].columns, RequiredButTitle \cup {<<"name">>}))
      => failure # "MissingColumn"

\* C10 as amended: a file whose header has the required columns, the title
\* column being `NAME`, loads into a table with every column the chart
\* builders look up, and no builder run on such a table ends in a
\* missing-column failure.
C10_UpperCaseNAME ==
    /\ [][(LoadStep /\ cache = None /\ pc' = "groups"
             /\ HeaderHasAll(disk.header, RequiredButTitle \cup {col_NAME}))
            => BuildersFindColumns(data'[1])]_vars
    /\ []((data # None /\ BuildersFindColumns(data[1]))
            => failure # "MissingColumn")

C10_Witness ==
    /\ pc = "done"
    /\ HasCol(data[1], col_NAME)
    /\ disk.exists
    /\ HeaderHasAll(disk.header, RequiredButTitle \cup {col_NAME})
    /\ \E j \in 1..Len(disk.header) : disk.header[j] # data[1].columns[j]

====
